---- MODULE Spec2Model ----
(***************************************************************************)
(* Model of plugins.v2/subscriptionmultiversion/__init__.py: the workflow  *)
(* action subscribe_multiversion_filter and the helpers it calls           *)
(* (_convert_subscribe_to_media_info, _search_site_torrents,               *)
(* _get_downloaded_torrents_for_subscribe, _filter_torrents_with_rules,    *)
(* _check_torrent_filter, _record_downloaded_episodes_for_subscribe,       *)
(* _is_episode_covered_for_media), and the API endpoints                   *)
(* query_subscribe_torrents_api and filter_torrents_api.                   *)
(*                                                                         *)
(* The collaborators of the plugin (MediaChain, SearchChain,               *)
(* DownloadHistoryOper, MetaInfo, TorrentHelper, FilterModule,             *)
(* SubscribeOper) are not part of the repository: every call to one of     *)
(* them is an input of the step that makes the call, drawn from a small    *)
(* set (a value, or "raise").                                              *)
(*                                                                         *)
(* Python's None / 0 / "" (all falsy) are written 0; an empty list is <<>>.*)
(* A coverage token is <<"e", n>> for the integer episode n and <<"s", n>> *)
(* for the string f"s{n}": an int never equals a str in Python.            *)
(***************************************************************************)
EXTENDS Integers, Sequences, FiniteSets, TLC

\* ---------------------------------------------------------------- bounds
MaxEpisode == 2
MaxSeason == 1
MaxSubs == 1
MaxFresh == 2
MaxHist == 2
BatchSubs == 2
BatchFresh == 1
BatchHist == 1
MaxRecords == 2
MaxId == 2
MaxApiCalls == 4
MaxContextTorrents == 2
MaxDownloading == 2
MaxContextEpisode == 1

VARIABLES
    pc,                         \* position in subscribe_multiversion_filter
    prioritize_downloaded,      \* kwargs["prioritize_downloaded"]
    rule_groups,                \* kwargs["rule_groups"]
    subscribes,                 \* the list iterated by the for loop (line 309)
    idx,                        \* index of the current subscribe in subscribes
    media_info,                 \* media_info of the current subscribe (its type)
    site_torrents,              \* local site_torrents
    downloaded_torrents,        \* local downloaded_torrents
    valid_downloaded_torrents,  \* local valid_downloaded_torrents
    downloaded_episodes,        \* dict subscribe id -> set of tokens (line 306)
    torrents,                   \* argument of the running _filter_torrents_with_rules
    k,                          \* index of its for loop (line 1057)
    filtered_torrents,          \* its local filtered_torrents
    all_torrents,               \* local all_torrents (line 304)
    media_infos,                \* local media_infos (line 305)
    result,                     \* what the caller receives: status and context
    download_history,           \* what DownloadHistoryOper returned for the subscribe
    calls,                      \* how the two suppliers answered for the subscribe
    last,                       \* the collaborator answers of the latest candidate step
    unit,                       \* inputs and results of a direct call of the coverage helpers
    api,                        \* the switches of the plugin and the latest answer of an API endpoint
    ft                          \* the context, kwargs and locals of a call of filter_torrents

vars == <<pc, prioritize_downloaded, rule_groups, subscribes, idx, media_info,
          site_torrents, downloaded_torrents, valid_downloaded_torrents,
          downloaded_episodes, torrents, k, filtered_torrents, all_torrents,
          media_infos, result, download_history, calls, last, unit, api, ft>>

\* ------------------------------------------------------------ data model
TV == "TV"
MOVIE == "MOVIE"
MediaTypes == {TV, MOVIE}

RECURSIVE IncreasingLists(_)
\* the ordered lists of distinct episode numbers up to n
IncreasingLists(n) ==
    IF n = 0 THEN {<<>>}
    ELSE IncreasingLists(n - 1) \cup {Append(l, n) : l \in IncreasingLists(n - 1)}

Meta(s, l, b, e) ==
    [season |-> s, episode_list |-> l, begin_episode |-> b, end_episode |-> e]

NoMeta == Meta(0, <<>>, 0, 0)

\* every shape of the fields the plugin reads from a MetaInfo object
MetaInfos ==
    {Meta(s, l, b, e) : s \in 0..MaxSeason, l \in IncreasingLists(MaxEpisode),
                        b \in 0..MaxEpisode, e \in 0..(MaxEpisode + 1)}

\* a season key that is the number of the season, not the string f"s{n}"
SeasonKeyAsNumber(n) == <<"e", n>>

EpisodeToken(n) == <<"e", n>>
SeasonKey(n) == <<"s", n>>

Tokens ==
    {EpisodeToken(n) : n \in 1..(MaxEpisode + 1)} \cup {SeasonKey(n) : n \in 1..MaxSeason}


\* the MetaInfo results of the titles the suppliers hand out in the batch runs:
\* episode 1, episodes 1-2 as a list, episodes 1..2 as a begin/end range,
\* season 1 alone, season 1 with a begin episode, and nothing recognised
TitleMetas ==
    {Meta(0, <<1>>, 0, 0), Meta(0, <<1, 2>>, 0, 0), Meta(0, <<>>, 1, 2),
     Meta(1, <<>>, 0, 0), Meta(1, <<>>, 1, 0), NoMeta}

\* a parse of a title: MetaInfo(title) returns a meta or raises
Parsed(m) == [ok |-> TRUE, meta |-> m]
ParseRaised == [ok |-> FALSE, meta |-> NoMeta]

\* answers of TorrentHelper.filter_torrent / FilterModule.filter_torrents
Answers == {"pass", "fail", "raise"}

\* a Context object: sub is the position of its subscribe in the batch, key its
\* position in the supplier's result, downloaded whether meta_info.org_string
\* starts with "downloaded:", meta its meta_info; criteria is what the predicate
\* over the whole criteria bundle of the action answers for the torrent
\* ("unknown": not asked)
Torrent(s, n, d, m, c) ==
    [sub |-> s, key |-> n, downloaded |-> d, meta |-> m, criteria |-> c]

NoTorrent == Torrent(0, 0, FALSE, NoMeta, "unknown")

NoEval == [th |-> "uncalled", fm |-> "uncalled"]

NoLast ==
    [phase |-> 0, torrent |-> NoTorrent, parse |-> Parsed(NoMeta), ev |-> NoEval,
     fm0 |-> "uncalled", decision |-> "none"]

\* a direct call of the coverage helpers: the media type and the meta it is given,
\* the set before the first call and now, the calls made and the last answer
NoUnit == [type |-> TV, meta |-> NoMeta, before |-> {}, after |-> {}, records |-> 0,
           asked |-> FALSE, answer |-> FALSE]

NoResult == [returned |-> FALSE, raised |-> FALSE, status |-> FALSE,
             torrents |-> <<>>, medias |-> <<>>]

RECURSIVE SeqsUpTo(_, _)
\* the sequences over S of length at most n
SeqsUpTo(S, n) ==
    IF n = 0 THEN {<<>>}
    ELSE SeqsUpTo(S, n - 1) \cup
         {Append(q, x) : q \in {r \in SeqsUpTo(S, n - 1) : Len(r) = n - 1}, x \in S}

\* ------------------------------------------------------- coverage helpers
\* _record_downloaded_episodes_for_subscribe, the body of its for loop: the
\* tokens one torrent's meta_info adds to the set of its subscribe
RecordTokens(m) ==
    IF m.episode_list # <<>>
    THEN {EpisodeToken(m.episode_list[i]) : i \in 1..Len(m.episode_list)}
    ELSE IF m.begin_episode # 0
    THEN IF m.end_episode # 0
         THEN {EpisodeToken(n) : n \in m.begin_episode..m.end_episode}
         ELSE {EpisodeToken(m.begin_episode)}
    ELSE IF m.season # 0
    THEN {SeasonKey(m.season)}
    ELSE {}

\* _record_downloaded_episodes_for_subscribe taking a token that is already in
\* the set out of it, instead of leaving it there
RecordTogglingEpisodes(ts, before) ==
    LET new == UNION {RecordTokens(ts[i].meta) : i \in 1..Len(ts)} IN
    (before \ new) \cup (new \ before)

\* _record_downloaded_episodes_for_subscribe: the set of subscribe_id after the
\* call, given the set before it (absent key: the empty set)
RecordDownloadedEpisodes(ts, before) ==
    before \cup UNION {RecordTokens(ts[i].meta) : i \in 1..Len(ts)}

\* _is_episode_covered_for_media without the test of the media type (line 1109)
IsEpisodeCoveredAnyMedia(parse, type, episodes) ==
    IF ~parse.ok THEN FALSE
    ELSE LET m == parse.meta IN
         IF m.episode_list = <<>> /\ m.season # 0
         THEN SeasonKey(m.season) \in episodes
         ELSE IF m.episode_list # <<>>
         THEN \A i \in 1..Len(m.episode_list) :
                  EpisodeToken(m.episode_list[i]) \in episodes
         ELSE IF m.begin_episode # 0
         THEN EpisodeToken(m.begin_episode) \in episodes
         ELSE FALSE

\* _is_episode_covered_for_media; parse is the result of MetaInfo(title)
IsEpisodeCoveredForMedia(parse, type, episodes) ==
    IF type # TV THEN FALSE
    ELSE IF ~parse.ok THEN FALSE
    ELSE LET m == parse.meta IN
         IF m.episode_list = <<>> /\ m.season # 0
         THEN SeasonKey(m.season) \in episodes
         ELSE IF m.episode_list # <<>>
         THEN \A i \in 1..Len(m.episode_list) :
                  EpisodeToken(m.episode_list[i]) \in episodes
         ELSE IF m.begin_episode # 0
         THEN EpisodeToken(m.begin_episode) \in episodes
         ELSE FALSE

\* ------------------------------------------------------ predicate helpers
\* the keys of filter_params as _filter_torrents_with_rules builds it
FilterParamsKeys == {"quality", "resolution", "effect", "include", "exclude", "size"}

\* _check_torrent_filter: filter_params.get("rule_groups", []) of that dict
CheckedRuleGroups(groups) ==
    IF "rule_groups" \in FilterParamsKeys THEN groups ELSE {}

\* _check_torrent_filter: filter_params is never empty, so FilterModule is
\* asked; answer is what it answers for the groups it is given (an exception
\* is caught and counts as a failure)
CheckTorrentFilter(answer) == answer = "pass"

\* KeepSiteTorrent without lines 1079-1087: the rule groups are not applied
KeepSiteTorrentBasicOnly(ev, groups) == ev.th = "pass"

\* _filter_torrents_with_rules, lines 1075-1090: a search result is kept when
\* TorrentHelper.filter_torrent passes it and, with rule groups configured,
\* FilterModule.filter_torrents keeps it; a raise of either discards it
KeepSiteTorrent(ev, groups) ==
    /\ ev.th = "pass"
    /\ (groups # {} => ev.fm = "pass")

\* the answers the two collaborators can give for one search result: the
\* FilterModule is asked only after TorrentHelper passed the torrent and only
\* with rule groups configured
Evals(groups) ==
    {[th |-> a, fm |-> "uncalled"] : a \in (IF groups = {} THEN Answers ELSE {"fail", "raise"})}
    \cup (IF groups = {} THEN {} ELSE {[th |-> "pass", fm |-> b] : b \in Answers})


\* --------------------------------------------------------- the batch state
Subscribes == [id : 1..MaxId, type : MediaTypes]

NoCalls == [search |-> "uncalled", history |-> "uncalled"]

\* a DownloadHistory row: what MetaInfo(title=row.torrent_name) does with it,
\* and what the criteria of the action say of the torrent
HistoryRows(metas) ==
    [parse : {Parsed(m) : m \in metas} \cup {ParseRaised}, criteria : {"pass", "fail"}]

EmptyEpisodes == [i \in 1..MaxId |-> {}]

\* no endpoint has answered yet
NoAnswer == [endpoint |-> "none", enabled |-> FALSE, feature |-> FALSE, status |-> 0]

\* lines 64-67: the switches as the class declares them, before init_plugin
NoApi == [enabled |-> FALSE, enable_search |-> TRUE, enable_filter |-> TRUE,
          calls |-> 0, answer |-> NoAnswer]

\* filter_torrents before a call: an empty context, no filter rules
NoFt == [torrents |-> <<>>, subscribes |-> <<>>, filter_params |-> {},
         downloaded_torrents |-> <<>>, downloaded_episodes |-> {},
         filtered_torrents |-> <<>>, answers |-> <<>>, k |-> 0]

\* the state at the entry of subscribe_multiversion_filter, for given kwargs
\* (at = "start"), or before a direct call of a coverage helper (at = "unit")
Entry(at, prio, groups, u, f) ==
    /\ pc = at
    /\ prioritize_downloaded = prio
    /\ rule_groups = groups
    /\ subscribes = <<>>
    /\ idx = 0
    /\ media_info = "none"
    /\ site_torrents = <<>>
    /\ downloaded_torrents = <<>>
    /\ valid_downloaded_torrents = <<>>
    /\ downloaded_episodes = EmptyEpisodes
    /\ torrents = <<>>
    /\ k = 0
    /\ filtered_torrents = <<>>
    /\ all_torrents = <<>>
    /\ media_infos = <<>>
    /\ result = NoResult
    /\ download_history = <<>>
    /\ calls = NoCalls
    /\ last = NoLast
    /\ unit = u
    /\ api = NoApi
    /\ ft = f

Init == \E prio \in BOOLEAN, groups \in {{}, {"g"}} : Entry("start", prio, groups, NoUnit, NoFt)

\* the locals of one pass of the for loop, before the pass assigns them
FreshLocals ==
    /\ media_info' = "none"
    /\ site_torrents' = <<>>
    /\ downloaded_torrents' = <<>>
    /\ valid_downloaded_torrents' = <<>>
    /\ torrents' = <<>>
    /\ k' = 0
    /\ filtered_torrents' = <<>>
    /\ download_history' = <<>>
    /\ calls' = NoCalls
    /\ last' = NoLast

\* subscribe_multiversion_filter without its outermost handler: the exception
\* reaches the caller
OuterExceptMissing(context) ==
    [returned |-> FALSE, raised |-> TRUE, status |-> FALSE,
     torrents |-> context.torrents, medias |-> context.medias]

\* lines 380-382: the outermost handler turns any exception into (False, context)
OuterExcept(context) ==
    [returned |-> TRUE, raised |-> FALSE, status |-> FALSE,
     torrents |-> context.torrents, medias |-> context.medias]

\* lines 372-378 without line 374: context.medias is left as it came
UpdatedContextWithoutMedias(ts, ms) ==
    [returned |-> TRUE, raised |-> FALSE, status |-> TRUE, torrents |-> ts, medias |-> <<>>]

\* lines 372-378: the context is updated and returned with status True
UpdatedContext(ts, ms) ==
    [returned |-> TRUE, raised |-> FALSE, status |-> TRUE, torrents |-> ts, medias |-> ms]

\* lines 299-301: no subscribes, the context is returned as it came
UntouchedContext(context) ==
    [returned |-> TRUE, raised |-> FALSE, status |-> TRUE,
     torrents |-> context.torrents, medias |-> context.medias]

\* lines 288-301: the subscribes come from the context or from SubscribeOper,
\* which may raise; n bounds the length of the batch
GetSubscribes(n) ==
    /\ pc = "start"
    /\ \E subs \in SeqsUpTo(Subscribes, n), db \in {"ok", "raise"} :
         IF db = "raise"
         THEN /\ subs = <<>>
              /\ result' = OuterExcept(result)
              /\ pc' = "done"
              /\ UNCHANGED <<subscribes, idx>>
         ELSE IF subs = <<>>
         THEN /\ result' = UntouchedContext(result)
              /\ pc' = "done"
              /\ UNCHANGED <<subscribes, idx>>
         ELSE /\ subscribes' = subs
              /\ idx' = 1
              /\ pc' = "convert"
              /\ UNCHANGED result
    /\ UNCHANGED <<prioritize_downloaded, rule_groups, media_info, site_torrents,
                   downloaded_torrents, valid_downloaded_torrents, downloaded_episodes,
                   torrents, k, filtered_torrents, all_torrents, media_infos,
                   download_history, calls, last, unit>>
    /\ UNCHANGED <<api, ft>>

\* _convert_subscribe_to_media_info: MediaChain.recognize_media returns a
\* MediaInfo ("ok"), returns nothing ("none") or raises; both handlers of the
\* function return None
ConvertSubscribeToMediaInfo(answer, subscribe) ==
    IF answer = "ok" THEN subscribe.type ELSE "none"

\* lines 313-315 with break in the place of continue: the loop is left
SkipSubscribeBreaks(i) == Len(subscribes) + 1

\* lines 313-315: the subscribe whose conversion gave nothing is passed over
\* with continue: the next pass of the loop starts
SkipSubscribe(i) == i + 1

\* lines 309-317: one subscribe is converted. download_history is what the
\* table of DownloadHistoryOper holds for the recognised media, at most n rows
ConvertSubscribe(n, metas) ==
    /\ pc = "convert"
    /\ idx <= Len(subscribes)
    /\ \E answer \in {"ok", "none", "raise"}, rows \in SeqsUpTo(HistoryRows(metas), n) :
         LET m == ConvertSubscribeToMediaInfo(answer, subscribes[idx]) IN
         IF m = "none"
         THEN /\ rows = <<>>
              /\ idx' = SkipSubscribe(idx)
              /\ UNCHANGED <<pc, media_info, media_infos, download_history>>
         ELSE /\ media_info' = m
              /\ media_infos' = Append(media_infos, [sub |-> idx, type |-> m])
              /\ download_history' = rows
              /\ pc' = "search"
              /\ UNCHANGED idx
    /\ UNCHANGED <<prioritize_downloaded, rule_groups, subscribes, site_torrents,
                   downloaded_torrents, valid_downloaded_torrents, downloaded_episodes,
                   torrents, k, filtered_torrents, all_torrents, result, calls, last,
                   unit>>
    /\ UNCHANGED <<api, ft>>

\* _search_site_torrents: the Context objects of the search results, in the
\* order SearchChain returned them; any exception gives the empty list
SearchSiteTorrents(answer, found, i) ==
    IF answer = "raise" THEN <<>>
    ELSE [n \in 1..found |-> Torrent(i, n, FALSE, NoMeta, "unknown")]

\* downloaded_episodes.get(subscribe.id, set())
EpisodesOf(subscribe) == downloaded_episodes[subscribe.id]

\* lines 319-324, and for prioritize_downloaded false the entry of the call of
\* lines 352-364; n bounds the number of search results
SearchSite(n) ==
    /\ pc = "search"
    /\ \E answer \in {"ok", "raise"}, found \in 0..n :
         /\ site_torrents' = SearchSiteTorrents(answer, found, idx)
         /\ calls' = [calls EXCEPT !.search = answer]
    /\ IF prioritize_downloaded
       THEN /\ pc' = "history"
            /\ UNCHANGED <<torrents, k>>
       ELSE /\ pc' = "filter"
            /\ torrents' = site_torrents'
            /\ k' = 1
    /\ UNCHANGED <<prioritize_downloaded, rule_groups, subscribes, idx, media_info,
                   downloaded_torrents, valid_downloaded_torrents, downloaded_episodes,
                   filtered_torrents, all_torrents, media_infos, result,
                   download_history, last, unit>>
    /\ UNCHANGED <<api, ft>>

RECURSIVE ParsedPrefix(_)
\* lines 972-990: the for loop over the rows runs inside one try block, so the
\* row whose MetaInfo raises ends the loop; the rows before it are kept
ParsedPrefix(rows) ==
    IF rows = <<>> \/ ~Head(rows).parse.ok THEN <<>>
    ELSE <<Head(rows)>> \o ParsedPrefix(Tail(rows))

\* _get_downloaded_torrents_for_subscribe returning the rows it was given even
\* though the read of the history raised
GetDownloadedIgnoringRaise(answer, rows, i) ==
    LET kept == ParsedPrefix(rows) IN
    [n \in 1..Len(kept) |-> Torrent(i, n, TRUE, kept[n].parse.meta, kept[n].criteria)]

\* _get_downloaded_torrents_for_subscribe: one Context per row, marked
\* "downloaded:<id>"; a raise of get_by_mediaid gives the empty list
GetDownloadedTorrentsForSubscribe(answer, rows, i) ==
    IF answer = "raise" THEN <<>>
    ELSE LET kept == ParsedPrefix(rows) IN
         [n \in 1..Len(kept) |-> Torrent(i, n, TRUE, kept[n].parse.meta, kept[n].criteria)]

\* lines 326-343: the download history is read (get_by_mediaid may raise) and
\* the first call of _filter_torrents_with_rules is entered
GetDownloaded ==
    /\ pc = "history"
    /\ \E answer \in {"ok", "raise"} :
         /\ calls' = [calls EXCEPT !.history = answer]
         /\ downloaded_torrents' =
                GetDownloadedTorrentsForSubscribe(answer, download_history, idx)
    /\ torrents' = downloaded_torrents'
    /\ k' = 1
    /\ pc' = "filter_downloaded"
    /\ UNCHANGED <<prioritize_downloaded, rule_groups, subscribes, idx, media_info,
                   site_torrents, valid_downloaded_torrents, downloaded_episodes,
                   filtered_torrents, all_torrents, media_infos, result,
                   download_history, last, unit>>
    /\ UNCHANGED <<api, ft>>

\* the arguments prioritize_downloaded and downloaded_episodes of the running
\* call of _filter_torrents_with_rules: lines 341-342 and lines 362-363
CallPrioritize == IF pc = "filter_downloaded" THEN FALSE ELSE prioritize_downloaded
CallEpisodes == IF pc = "filter_downloaded" THEN {} ELSE EpisodesOf(subscribes[idx])

\* filtered_torrents.insert(0, torrent) in the place of append
InsertKept(out, t, keep) == IF keep THEN <<t>> \o out ELSE out

\* lines 1068 and 1090: filtered_torrents.append(torrent) for a torrent that is
\* kept; a torrent that is not kept leaves the list as it is
AppendKept(out, t, keep) == IF keep THEN Append(out, t) ELSE out

\* what FilterModule may answer for a downloaded torrent t. It is asked with the
\* groups of CheckedRuleGroups: were they the configured ones, a torrent that
\* meets the criteria would not be rejected. In the second call it is asked
\* again about a torrent it passed, and passes it again or raises
DownloadedAnswers(t) ==
    IF pc = "filter"
    THEN {"pass", "raise"}
    ELSE IF CheckedRuleGroups(rule_groups) # {} /\ t.criteria = "pass"
    THEN {"pass", "raise"}
    ELSE Answers

\* lines 1059-1068: one pass of the for loop, the torrent being a downloaded one
CheckDownloadedTorrent ==
    /\ pc \in {"filter_downloaded", "filter"}
    /\ k <= Len(torrents)
    /\ torrents[k].downloaded
    /\ \E answer \in DownloadedAnswers(torrents[k]) :
         LET keep == CheckTorrentFilter(answer) IN
         /\ filtered_torrents' = AppendKept(filtered_torrents, torrents[k], keep)
         /\ last' = [phase |-> IF pc = "filter" THEN 2 ELSE 1, torrent |-> torrents[k],
                     parse |-> Parsed(torrents[k].meta), ev |-> NoEval, fm0 |-> answer,
                     decision |-> IF keep THEN "kept" ELSE "dropped"]
    /\ k' = k + 1
    /\ UNCHANGED <<pc, prioritize_downloaded, rule_groups, subscribes, idx, media_info,
                   site_torrents, downloaded_torrents, valid_downloaded_torrents,
                   downloaded_episodes, torrents, all_torrents, media_infos, result,
                   download_history, calls, unit>>
    /\ UNCHANGED <<api, ft>>

\* lines 1070-1090: the decision taken for a search result
SiteTorrentDecision(prio, parse, type, episodes, ev, groups) ==
    IF prio /\ IsEpisodeCoveredForMedia(parse, type, episodes) THEN "skipped"
    ELSE IF KeepSiteTorrent(ev, groups) THEN "kept"
    ELSE "dropped"

\* lines 1059-1094: one pass of the for loop, the torrent being a search result;
\* metas are the results MetaInfo(title) can give
FilterSiteTorrent(metas) ==
    /\ pc \in {"filter_downloaded", "filter"}
    /\ k <= Len(torrents)
    /\ ~torrents[k].downloaded
    /\ \E parse \in {Parsed(m) : m \in metas} \cup {ParseRaised}, ev \in Evals(rule_groups) :
         LET d == SiteTorrentDecision(CallPrioritize, parse, media_info, CallEpisodes,
                                      ev, rule_groups) IN
         /\ filtered_torrents' = AppendKept(filtered_torrents, torrents[k], d = "kept")
         /\ last' = [phase |-> 2, torrent |-> torrents[k], parse |-> parse, ev |-> ev,
                     fm0 |-> "uncalled", decision |-> d]
    /\ k' = k + 1
    /\ UNCHANGED <<pc, prioritize_downloaded, rule_groups, subscribes, idx, media_info,
                   site_torrents, downloaded_torrents, valid_downloaded_torrents,
                   downloaded_episodes, torrents, all_torrents, media_infos, result,
                   download_history, calls, unit>>
    /\ UNCHANGED <<api, ft>>

\* lines 331-349 after the loop of the first call, and the entry of the second
\* call: the kept downloaded torrents are returned, their episodes recorded
\* under the id of the subscribe, and they are appended to site_torrents
RecordValidDownloaded ==
    /\ pc = "filter_downloaded"
    /\ k > Len(torrents)
    /\ valid_downloaded_torrents' = filtered_torrents
    /\ downloaded_episodes' =
           [downloaded_episodes EXCEPT ![subscribes[idx].id] =
                RecordDownloadedEpisodes(filtered_torrents, @)]
    /\ site_torrents' = site_torrents \o filtered_torrents
    /\ torrents' = site_torrents'
    /\ k' = 1
    /\ filtered_torrents' = <<>>
    /\ pc' = "filter"
    /\ UNCHANGED <<prioritize_downloaded, rule_groups, subscribes, idx, media_info,
                   downloaded_torrents, all_torrents, media_infos, result,
                   download_history, calls, last, unit>>
    /\ UNCHANGED <<api, ft>>

\* line 366 and the end of the pass: the torrents the second call returned are
\* appended to all_torrents and the loop goes on to the next subscribe
ExtendAllTorrents ==
    /\ pc = "filter"
    /\ k > Len(torrents)
    /\ all_torrents' = all_torrents \o filtered_torrents
    /\ idx' = idx + 1
    /\ pc' = "convert"
    /\ FreshLocals
    /\ UNCHANGED <<prioritize_downloaded, rule_groups, subscribes, downloaded_episodes,
                   media_infos, result, unit>>
    /\ UNCHANGED <<api, ft>>

\* lines 372-378: the loop is over
UpdateContext ==
    /\ pc = "convert"
    /\ idx > Len(subscribes)
    /\ result' = UpdatedContext(all_torrents, media_infos)
    /\ pc' = "done"
    /\ UNCHANGED <<prioritize_downloaded, rule_groups, subscribes, idx, media_info,
                   site_torrents, downloaded_torrents, valid_downloaded_torrents,
                   downloaded_episodes, torrents, k, filtered_torrents, all_torrents,
                   media_infos, download_history, calls, last, unit>>
    /\ UNCHANGED <<api, ft>>

Next ==
    \/ GetSubscribes(MaxSubs)
    \/ ConvertSubscribe(MaxHist, TitleMetas)
    \/ SearchSite(MaxFresh)
    \/ GetDownloaded
    \/ CheckDownloadedTorrent
    \/ FilterSiteTorrent(TitleMetas)
    \/ RecordValidDownloaded
    \/ ExtendAllTorrents
    \/ UpdateContext

Spec == Init /\ [][Next]_vars


\* ----------------------------------------------- batches of several subscribes
\* the MetaInfo results of the titles in the runs over longer batches
BatchMetas == {Meta(0, <<1>>, 0, 0), Meta(1, <<>>, 0, 0)}

BatchNext ==
    \/ GetSubscribes(BatchSubs)
    \/ ConvertSubscribe(BatchHist, BatchMetas)
    \/ SearchSite(BatchFresh)
    \/ GetDownloaded
    \/ CheckDownloadedTorrent
    \/ FilterSiteTorrent(BatchMetas)
    \/ RecordValidDownloaded
    \/ ExtendAllTorrents
    \/ UpdateContext

BatchSpec == Init /\ [][BatchNext]_vars

\* ------------------------------------------ the coverage helpers called directly
UnitInit ==
    \E m \in MetaInfos, before \in SUBSET Tokens, type \in MediaTypes :
        Entry("unit", TRUE, {}, [NoUnit EXCEPT !.type = type, !.meta = m,
                                                !.before = before, !.after = before],
              NoFt)

\* _record_downloaded_episodes_for_subscribe on one downloaded torrent with the
\* meta of the run, the set of its subscribe being unit.after
UnitRecord ==
    /\ pc = "unit"
    /\ unit.records < MaxRecords
    /\ unit' = [unit EXCEPT
                  !.records = @ + 1,
                  !.after = RecordDownloadedEpisodes(
                                <<Torrent(1, 1, TRUE, unit.meta, "pass")>>, unit.after)]
    /\ UNCHANGED <<pc, prioritize_downloaded, rule_groups, subscribes, idx, media_info,
                   site_torrents, downloaded_torrents, valid_downloaded_torrents,
                   downloaded_episodes, torrents, k, filtered_torrents, all_torrents,
                   media_infos, result, download_history, calls, last>>
    /\ UNCHANGED <<api, ft>>

\* _is_episode_covered_for_media on a title with the meta of the run and the
\* set unit.after
UnitCovered ==
    /\ pc = "unit"
    /\ unit' = [unit EXCEPT
                  !.asked = TRUE,
                  !.answer = IsEpisodeCoveredForMedia(Parsed(unit.meta), unit.type,
                                                      unit.after)]
    /\ pc' = "unit_done"
    /\ UNCHANGED <<prioritize_downloaded, rule_groups, subscribes, idx, media_info,
                   site_torrents, downloaded_torrents, valid_downloaded_torrents,
                   downloaded_episodes, torrents, k, filtered_torrents, all_torrents,
                   media_infos, result, download_history, calls, last>>
    /\ UNCHANGED <<api, ft>>

UnitNext == UnitRecord \/ UnitCovered

UnitSpec == UnitInit /\ [][UnitNext]_vars


\* ------------------------------------------------------- the API endpoints
\* what an endpoint leaves alone: the variables of subscribe_multiversion_filter
ActionVars == <<pc, prioritize_downloaded, rule_groups, subscribes, idx, media_info,
                site_torrents, downloaded_torrents, valid_downloaded_torrents,
                downloaded_episodes, torrents, k, filtered_torrents, all_torrents,
                media_infos, result, download_history, calls, last, unit>>

\* the try block of an endpoint (lines 141-157 and 167-183): the status of the
\* HTTPException it raises, 0 when it reaches its return
RaisedInTry(enabled, feature) ==
    IF ~enabled THEN 400
    ELSE IF ~feature THEN 400
    ELSE 0

\* the handler of an endpoint (lines 158-160 and 184-186): except Exception
\* catches what the try block raised, an HTTPException included, and raises
\* HTTPException(status_code=500); without a raise the payload is returned
EndpointStatus(enabled, feature) ==
    IF RaisedInTry(enabled, feature) # 0 THEN 500 ELSE 200

ApiInit == Entry("api", TRUE, {}, NoUnit, NoFt)

\* init_plugin with a config (lines 73-77): the switches are set
InitPlugin ==
    /\ pc = "api"
    /\ \E e, s, f \in BOOLEAN :
         api' = [api EXCEPT !.enabled = e, !.enable_search = s, !.enable_filter = f]
    /\ UNCHANGED ActionVars
    /\ UNCHANGED ft

\* query_subscribe_torrents_api
QuerySubscribeTorrentsApi ==
    /\ pc = "api"
    /\ api.calls < MaxApiCalls
    /\ api' = [api EXCEPT
                 !.calls = @ + 1,
                 !.answer = [endpoint |-> "query", enabled |-> api.enabled,
                             feature |-> api.enable_search,
                             status |-> EndpointStatus(api.enabled, api.enable_search)]]
    /\ UNCHANGED ActionVars
    /\ UNCHANGED ft

\* filter_torrents_api
FilterTorrentsApi ==
    /\ pc = "api"
    /\ api.calls < MaxApiCalls
    /\ api' = [api EXCEPT
                 !.calls = @ + 1,
                 !.answer = [endpoint |-> "filter", enabled |-> api.enabled,
                             feature |-> api.enable_filter,
                             status |-> EndpointStatus(api.enabled, api.enable_filter)]]
    /\ UNCHANGED ActionVars
    /\ UNCHANGED ft

ApiNext == InitPlugin \/ QuerySubscribeTorrentsApi \/ FilterTorrentsApi

ApiSpec == ApiInit /\ [][ApiNext]_vars


\* --------------------------------------------------- the action filter_torrents
\* what filter_torrents leaves alone
NoFtVars == <<prioritize_downloaded, rule_groups, subscribes, idx, media_info,
              site_torrents, downloaded_torrents, valid_downloaded_torrents,
              downloaded_episodes, torrents, k, filtered_torrents, all_torrents,
              media_infos, download_history, calls, last, unit, api>>

\* a Context of context.torrents as filter_torrents reads it: whether
\* meta_info.org_string starts with "downloaded:", and the type, episode and
\* season of its media_info (0: none)
ContextTorrents ==
    [downloaded : BOOLEAN, type : MediaTypes, episode : 0..MaxContextEpisode,
     season : 0..MaxSeason]

\* lines 586-591: the Context built for a torrent of the downloader; its
\* media_info is not set
DownloadingTorrent == [downloaded |-> TRUE, type |-> "none", episode |-> 0, season |-> 0]

\* _parse_filter_rules: the keys of the dict parsed from the rules string; an
\* empty string gives the empty dict
ParseFilterRules(rules) == IF rules = "" THEN {} ELSE {"quality"}

\* _check_torrent_filter (lines 747-766) for any filter_params: an empty dict
\* passes every torrent without asking FilterModule
CheckTorrentFilterParams(params, answer) ==
    IF params = {} THEN TRUE ELSE CheckTorrentFilter(answer)

\* _record_downloaded_episodes (lines 768-782)
RecordDownloadedEpisodesOfTorrent(t, episodes) ==
    IF t.type # TV THEN episodes
    ELSE IF t.episode # 0 THEN episodes \cup {EpisodeToken(t.episode)}
    ELSE IF t.season # 0 THEN episodes \cup {SeasonKey(t.season)}
    ELSE episodes

\* _is_episode_covered (lines 784-802)
IsEpisodeCovered(t, episodes) ==
    IF t.type # TV THEN FALSE
    ELSE IF t.episode # 0 THEN EpisodeToken(t.episode) \in episodes
    ELSE IF t.season # 0 THEN SeasonKey(t.season) \in episodes
    ELSE FALSE

\* _get_downloaded_torrents_from_subscribes: one Context per torrent of the
\* downloader that matches a subscribe; a raise of DownloadChain gives none
GetDownloadedTorrentsFromSubscribes(answer, found) ==
    IF answer = "raise" THEN <<>> ELSE [n \in 1..found |-> DownloadingTorrent]

\* lines 514-515: the local downloaded_torrents is assigned only inside
\* `if context.subscribes:`
DownloadedTorrentsBound(subs) == subs # <<>>

\* what filter_torrents returns: a status and the context with its torrents
FtReturned(status, ts) ==
    [returned |-> TRUE, raised |-> FALSE, status |-> status, torrents |-> ts,
     medias |-> <<>>]

FtInit ==
    \E ts \in SeqsUpTo(ContextTorrents, MaxContextTorrents),
       subs \in SeqsUpTo(Subscribes, MaxSubs), rules \in {"", "quality=1080p"} :
        Entry("ft_start", TRUE, {}, NoUnit,
              [NoFt EXCEPT !.torrents = ts, !.subscribes = subs,
                           !.filter_params = ParseFilterRules(rules)])

\* lines 496-520: the entry of filter_torrents up to the first loop. Without
\* subscribes the name downloaded_torrents is unbound when line 523 reads it:
\* the UnboundLocalError is caught at line 555 and (False, context) returned
FtEnter ==
    /\ pc = "ft_start"
    /\ IF ft.torrents = <<>> /\ ft.subscribes = <<>>
       THEN /\ result' = FtReturned(TRUE, ft.torrents)
            /\ pc' = "ft_done"
            /\ UNCHANGED ft
       ELSE IF ~DownloadedTorrentsBound(ft.subscribes)
       THEN /\ result' = FtReturned(FALSE, ft.torrents)
            /\ pc' = "ft_done"
            /\ UNCHANGED ft
       ELSE /\ \E answer \in {"ok", "raise"}, found \in 0..MaxDownloading :
                 ft' = [ft EXCEPT
                          !.downloaded_torrents =
                              GetDownloadedTorrentsFromSubscribes(answer, found),
                          !.k = 1]
            /\ pc' = IF ft'.downloaded_torrents = <<>> THEN "ft_filter"
                     ELSE "ft_downloaded"
            /\ UNCHANGED result
    /\ UNCHANGED NoFtVars

\* lines 523-530: one pass of the loop over the downloaded torrents
FtCheckDownloaded ==
    /\ pc = "ft_downloaded"
    /\ ft.k <= Len(ft.downloaded_torrents)
    /\ \E answer \in Answers :
         LET t == ft.downloaded_torrents[ft.k] IN
         ft' = [ft EXCEPT
                  !.downloaded_episodes =
                      IF t.downloaded /\ CheckTorrentFilterParams(ft.filter_params, answer)
                      THEN RecordDownloadedEpisodesOfTorrent(t, @)
                      ELSE @,
                  !.k = IF ft.k = Len(ft.downloaded_torrents) THEN 1 ELSE @ + 1]
    /\ pc' = IF ft.k = Len(ft.downloaded_torrents) THEN "ft_filter" ELSE pc
    /\ UNCHANGED result
    /\ UNCHANGED NoFtVars

\* lines 533-542: one pass of the loop over the torrents of the context
FtFilterTorrent ==
    /\ pc = "ft_filter"
    /\ ft.k <= Len(ft.torrents)
    /\ \E answer \in Answers :
         LET t == ft.torrents[ft.k]
             keep == /\ ~t.downloaded
                     /\ ~IsEpisodeCovered(t, ft.downloaded_episodes)
                     /\ CheckTorrentFilterParams(ft.filter_params, answer)
         IN ft' = [ft EXCEPT
                     !.filtered_torrents = AppendKept(@, t, keep),
                     !.answers = Append(@, answer),
                     !.k = @ + 1]
    /\ UNCHANGED <<pc, result>>
    /\ UNCHANGED NoFtVars

\* lines 544-553: the context is updated and returned with status True
FtReturn ==
    /\ pc = "ft_filter"
    /\ ft.k > Len(ft.torrents)
    /\ result' = FtReturned(TRUE, ft.filtered_torrents)
    /\ pc' = "ft_done"
    /\ UNCHANGED ft
    /\ UNCHANGED NoFtVars

FtNext == FtEnter \/ FtCheckDownloaded \/ FtFilterTorrent \/ FtReturn

FtSpec == FtInit /\ [][FtNext]_vars


\* ================================================================ properties
\* the content units a descriptor stands for: its explicit episode list, else
\* its begin/end range (its begin episode when there is no end), else its season
ImpliedUnits(m) ==
    IF m.episode_list # <<>>
    THEN {EpisodeToken(m.episode_list[i]) : i \in 1..Len(m.episode_list)}
    ELSE IF m.begin_episode # 0
    THEN {EpisodeToken(n) : n \in m.begin_episode..
                                  (IF m.end_episode # 0 THEN m.end_episode ELSE m.begin_episode)}
    ELSE IF m.season # 0 THEN {SeasonKey(m.season)}
    ELSE {}

\* the descriptor names episodes: by an explicit list or by a begin/end range
ListOrRange(m) ==
    m.episode_list # <<>> \/ (m.begin_episode # 0 /\ m.end_episode # 0)

\* C3: _is_episode_covered_for_media is all-or-nothing: for a series title whose
\* descriptor is an explicit episode list or a begin/end range it answers true
\* only if every episode of the list, or every integer of the range, is a token
\* of the set it is given.
C3_AllOrNothing ==
    (pc = "unit_done" /\ unit.type = TV /\ ListOrRange(unit.meta) /\ unit.answer)
        => ImpliedUnits(unit.meta) \subseteq unit.after


Range(q) == {q[i] : i \in 1..Len(q)}

\* the tokens the descriptors of a list of torrents stand for
UnitsOf(ts) == UNION {ImpliedUnits(ts[i].meta) : i \in 1..Len(ts)}

\* the predicate over the whole criteria bundle, on the answers of the collaborators
PassesPredicate(ev, groups) ==
    ev.th = "pass" /\ (groups = {} \/ ev.fm = "pass")

EvaluationRaised(ev) == ev.th = "raise" \/ ev.fm = "raise"

\* the second call of _filter_torrents_with_rules has gone through its list:
\* filtered_torrents is the output of the subscribe
SubscribeDone == pc = "filter" /\ k > Len(torrents)

\* the latest step decided on a search result of the subscribe in hand
FreshStep == pc = "filter" /\ last.phase = 2 /\ ~last.torrent.downloaded

\* the downloaded torrents of the subscribe that meet the criteria of the action
PassingDownloaded == SelectSeq(downloaded_torrents, LAMBDA t : t.criteria = "pass")

\* C1: with prioritize_downloaded and a series subscribe, the historical
\* candidates are all evaluated and the passing ones recorded before the first
\* fresh candidate is decided on; so every fresh candidate whose descriptor is
\* fully covered by the tokens of the passing historical candidates is left out
\* of the output, and each passing historical candidate is in the output.
C1_PhaseOrder ==
    (pc = "filter" /\ prioritize_downloaded /\ media_info = TV) =>
        /\ UnitsOf(valid_downloaded_torrents) \subseteq EpisodesOf(subscribes[idx])
        /\ (FreshStep /\ last.parse.ok /\ ImpliedUnits(last.parse.meta) # {}
              /\ ImpliedUnits(last.parse.meta) \subseteq UnitsOf(valid_downloaded_torrents))
             => (last.decision = "skipped" /\ last.torrent \notin Range(filtered_torrents))
        /\ SubscribeDone => Range(valid_downloaded_torrents) \subseteq Range(filtered_torrents)

\* C2: a historical candidate that fails the predicate adds no token to the
\* coverage set and is not in the output; a fresh candidate for the same
\* episodes is then not skipped and is in the output exactly when it passes.
C2_FailingHistorical ==
    (pc = "filter" /\ prioritize_downloaded) =>
        /\ EpisodesOf(subscribes[idx]) \subseteq UnitsOf(PassingDownloaded)
        /\ \A t \in Range(filtered_torrents) : t.downloaded => t.criteria = "pass"
        /\ (FreshStep /\ last.parse.ok
              /\ ~(ImpliedUnits(last.parse.meta) \subseteq UnitsOf(PassingDownloaded)))
             => (last.decision = "kept" <=> PassesPredicate(last.ev, rule_groups))

\* C4: with prioritize_downloaded, a fresh candidate that passes the predicate
\* and whose descriptor implies a content unit that is no token of the coverage
\* set of its subscribe is in the output.
C4_NetNewKept ==
    (FreshStep /\ prioritize_downloaded /\ last.parse.ok
       /\ PassesPredicate(last.ev, rule_groups)
       /\ ~(ImpliedUnits(last.parse.meta) \subseteq EpisodesOf(subscribes[idx])))
      => (last.decision = "kept" /\ last.torrent \in Range(filtered_torrents))

\* C6: a historical candidate is admitted (kept by the first call, hence recorded
\* and output) exactly when it passes the predicate over the whole criteria
\* bundle, rule groups included.
C6_HistoricalFullCriteria ==
    last.phase = 1 => (last.decision = "kept" <=> last.torrent.criteria = "pass")

\* the rows of the download history whose title MetaInfo can parse
ParsableRows == {i \in 1..Len(download_history) : download_history[i].parse.ok}

\* C9: in both phases a candidate whose parsing or evaluation raises is the only
\* one discarded: every other candidate of the subscribe is still processed and,
\* if it passes, output.
C9_CandidateIsolation ==
    /\ (pc \in {"filter_downloaded", "filter"} /\ calls.history = "ok")
         => Len(downloaded_torrents) = Cardinality(ParsableRows)
    /\ (FreshStep /\ prioritize_downloaded /\ media_info = TV /\ ~last.parse.ok)
         => last.decision # "kept"
    /\ (FreshStep /\ EvaluationRaised(last.ev) /\ last.decision # "skipped")
         => last.decision = "dropped"
    /\ (FreshStep /\ last.parse.ok /\ last.decision # "skipped")
         => (last.decision = "kept" <=> PassesPredicate(last.ev, rule_groups))


RECURSIVE IsSubsequence(_, _)
\* q holds elements of r in the order of r
IsSubsequence(q, r) ==
    IF q = <<>> THEN TRUE
    ELSE IF r = <<>> THEN FALSE
    ELSE IF Head(q) = Head(r) THEN IsSubsequence(Tail(q), Tail(r))
    ELSE IsSubsequence(q, Tail(r))

\* a row of the download history of the subscribe that parses and meets the
\* criteria is in the output as a downloaded torrent
PassingRowsOutput ==
    \A i \in ParsableRows :
        download_history[i].criteria = "pass" =>
            \E t \in Range(filtered_torrents) :
                t.downloaded /\ t.meta = download_history[i].parse.meta

ConversionFails == pc = "convert" /\ idx <= Len(subscribes) /\ pc' = "convert"

\* the positions of the batch whose conversion gave a media_info
Resolved == {media_infos[i].sub : i \in 1..Len(media_infos)}

C10_NeverRaises ==
    /\ ~result.raised
    /\ result.returned <=> pc = "done"
    /\ result.returned => result.status \in BOOLEAN
    /\ pc # "done" => ENABLED BatchNext

\* SubscribeOper raised and the caller received (False, context)
C10_Witness ==
    /\ pc = "done"
    /\ result.returned
    /\ ~result.status


\* the subscribe in hand is being processed: its media_info is known and its
\* pass of the loop is not over
InProcessing == pc \in {"search", "history", "filter_downloaded", "filter"}

\* the tokens recorded from the passing downloaded torrents of the subscribe in
\* hand, in this pass of the loop
OwnTokens == RecordDownloadedEpisodes(valid_downloaded_torrents, {})

\* C11: coverage isolation: the coverage set of the subscribe in hand is empty
\* until its own downloaded torrents are recorded, and afterwards holds only the
\* tokens recorded from them in this pass; no token recorded for another entry
\* of the batch, an earlier entry with the same id included, is in it.
C11_CoverageIsolation ==
    /\ (InProcessing /\ pc # "filter") => EpisodesOf(subscribes[idx]) = {}
    /\ pc = "filter" => EpisodesOf(subscribes[idx]) \subseteq OwnTokens


\* C12: movie immunity: for a subscribe whose media is not a series,
\* _is_episode_covered_for_media answers false for every fresh candidate,
\* whatever the coverage set of the subscribe holds, and no fresh candidate is
\* skipped on coverage: it is kept exactly when it passes the predicate.
C12_MovieImmunity ==
    (FreshStep /\ media_info # TV) =>
        /\ ~IsEpisodeCoveredForMedia(last.parse, media_info, EpisodesOf(subscribes[idx]))
        /\ last.decision # "skipped"
        /\ last.decision = "kept" <=> PassesPredicate(last.ev, rule_groups)

\* a fresh candidate of a movie subscribe whose tokens are all in the coverage
\* set of the subscribe was decided on, and kept
C12_Witness ==
    /\ FreshStep
    /\ media_info = MOVIE
    /\ prioritize_downloaded
    /\ last.parse.ok
    /\ RecordTokens(last.parse.meta) # {}
    /\ RecordTokens(last.parse.meta) \subseteq EpisodesOf(subscribes[idx])
    /\ last.decision = "kept"


\* C13: media that are not a series never produce coverage tokens: while and
\* after a subscribe whose media is not a series is processed, its coverage set
\* is empty, whatever its downloaded torrents' titles carry.
C13_NoTokensForMovies ==
    (InProcessing /\ media_info # TV) => EpisodesOf(subscribes[idx]) = {}


\* C14: context.medias holds one entry per subscribe whose conversion gave a
\* media_info, in batch order, and none for a subscribe whose conversion failed:
\* the entry is appended by the step that converts the subscribe, no later step
\* of the pass (search, history, filtering) changes media_infos, and the
\* result holds media_infos.
C14_ResolvedIdentities ==
    [][/\ (pc = "convert" /\ idx <= Len(subscribes)) =>
             IF pc' = "search"
             THEN media_infos' =
                      Append(media_infos, [sub |-> idx, type |-> subscribes[idx].type])
             ELSE media_infos' = media_infos
       /\ ~(pc = "convert" /\ idx <= Len(subscribes)) => media_infos' = media_infos
       /\ (pc' = "done" /\ subscribes # <<>>) => result'.medias = media_infos
       /\ \A i, j \in 1..Len(media_infos') :
             i < j => media_infos'[i].sub < media_infos'[j].sub]_vars

\* the first subscribe of a batch of two had no media_info; the second one had,
\* then its search and its history both raised: its entry is the only one
C14_Witness ==
    /\ SubscribeDone
    /\ idx = 2
    /\ calls.search = "raise"
    /\ calls.history = "raise"
    /\ media_infos = <<[sub |-> 2, type |-> subscribes[2].type]>>


\* C15: record and coverage test read a descriptor by the same precedence
\* (episode list, else begin/end range, else season): for a series, a descriptor
\* that has been recorded into a set, and that put a token there, is reported
\* as covered by that set; in particular a descriptor with a season and a
\* begin episode but no list is judged on its episode tokens.
C15_SamePrecedence ==
    (pc = "unit_done" /\ unit.type = TV /\ unit.records >= 1
        /\ RecordTokens(unit.meta) # {})
      => unit.answer


\* the descriptor names a season and nothing else
SeasonOnly(m) == m.season # 0 /\ m.episode_list = <<>> /\ m.begin_episode = 0

EpisodeTokens == {EpisodeToken(n) : n \in 1..(MaxEpisode + 1)}

\* C16: season tokens and episode tokens are distinct: when only season-only
\* descriptors were recorded for a subscribe, no fresh candidate with an
\* explicit episode list is reported as covered, and when only episode tokens
\* were recorded, no season-only fresh candidate is reported as covered.
C16_DistinctTokenSpaces ==
    (FreshStep /\ prioritize_downloaded /\ last.parse.ok) =>
        /\ (/\ last.parse.meta.episode_list # <<>>
            /\ \A t \in Range(valid_downloaded_torrents) : SeasonOnly(t.meta))
              => last.decision # "skipped"
        /\ (/\ SeasonOnly(last.parse.meta)
            /\ \A t \in Range(valid_downloaded_torrents) :
                   RecordTokens(t.meta) \subseteq EpisodeTokens)
              => last.decision # "skipped"

\* season 1 was recorded from a downloaded torrent and a fresh candidate for
\* the episode list [1] of a series was then decided on
C16_Witness ==
    /\ FreshStep
    /\ prioritize_downloaded
    /\ media_info = TV
    /\ last.parse = Parsed(Meta(0, <<1>>, 0, 0))
    /\ valid_downloaded_torrents # <<>>
    /\ \A t \in Range(valid_downloaded_torrents) : SeasonOnly(t.meta)
    /\ EpisodesOf(subscribes[idx]) = {SeasonKey(1)}
    /\ last.decision = "kept"


\* C17: recording is idempotent: recording a descriptor into a set into which
\* it has been recorded already leaves the set as it is.
C17_RecordIdempotent ==
    [][(unit.records >= 1 /\ unit'.records = unit.records + 1)
          => unit'.after = unit.after]_vars

\* a descriptor was recorded twice and its tokens were new to the set
C17_Witness ==
    /\ unit.records = 2
    /\ RecordTokens(unit.meta) # {}
    /\ unit.after = unit.before \cup RecordTokens(unit.meta)
    /\ unit.after # unit.before


\* the torrents of q that are (d = TRUE) or are not (d = FALSE) downloaded ones
\* come in the order of their positions in their supplier's result, each once
InSupplierOrder(q, d) ==
    \A i, j \in 1..Len(q) :
        (i < j /\ q[i].downloaded = d /\ q[j].downloaded = d) => q[i].key < q[j].key

\* C18: stable order: each call of _filter_torrents_with_rules goes through its
\* list in order, and what it has kept so far is, in the same order, part of
\* what it has gone through; so the accepted search results keep their search
\* order in the output, the accepted downloaded torrents keep their history
\* order, and none appears twice.
C18_StableOrder ==
    (pc \in {"filter_downloaded", "filter"}) =>
        /\ k > 1 => last.torrent = torrents[k - 1]
        /\ IsSubsequence(filtered_torrents, SubSeq(torrents, 1, k - 1))
        /\ InSupplierOrder(torrents, TRUE) /\ InSupplierOrder(torrents, FALSE)
        /\ InSupplierOrder(filtered_torrents, TRUE)
        /\ InSupplierOrder(filtered_torrents, FALSE)
        /\ InSupplierOrder(valid_downloaded_torrents, TRUE)

\* the output of a subscribe holds two search results and two downloaded torrents
C18_Witness ==
    /\ SubscribeDone
    /\ Len(filtered_torrents) = 4
    /\ Len(valid_downloaded_torrents) = 2
    /\ ~filtered_torrents[1].downloaded /\ ~filtered_torrents[2].downloaded


\* C19: coverage and output agree on the downloaded torrents: with
\* prioritize_downloaded, a downloaded torrent has put its tokens into the
\* coverage set of its subscribe (it was kept by the first call) exactly when
\* it is in the output of the subscribe (it was kept by the second call too).
C19_CoverageAgreesWithOutput ==
    (SubscribeDone /\ prioritize_downloaded) =>
        /\ {t \in Range(valid_downloaded_torrents) : RecordTokens(t.meta) # {}}
              \subseteq Range(filtered_torrents)
        /\ {t \in Range(filtered_torrents) : t.downloaded}
              \subseteq Range(valid_downloaded_torrents)



\* C20: an endpoint (query, filter) answers with status 400 when the plugin is
\* disabled or its feature (search, filter) is switched off, and with the
\* success payload otherwise; it answers 500 in neither case.
C20_EndpointStatus ==
    api.answer.endpoint # "none" =>
        /\ (~api.answer.enabled \/ ~api.answer.feature) => api.answer.status = 400
        /\ (api.answer.enabled /\ api.answer.feature) => api.answer.status = 200
        /\ api.answer.status # 500



RECURSIVE PassingOf(_, _, _)
\* the torrents of ts for which the filter rules params pass, answers[i] being
\* what FilterModule says of ts[i]
PassingOf(ts, answers, params) ==
    IF ts = <<>> \/ answers = <<>> THEN <<>>
    ELSE (IF CheckTorrentFilterParams(params, Head(answers)) THEN <<Head(ts)>> ELSE <<>>)
         \o PassingOf(Tail(ts), Tail(answers), params)

\* C21: filter_torrents on a context that holds torrents and no subscribes
\* succeeds: it returns status True with context.torrents set to exactly the
\* torrents of the context that pass the filter rules; no downloaded torrent
\* is looked up and none is skipped on coverage.
C21_FilterWithoutSubscribes ==
    (pc = "ft_done" /\ ft.torrents # <<>> /\ ft.subscribes = <<>>) =>
        /\ result.status
        /\ Len(ft.answers) = Len(ft.torrents)
        /\ result.torrents = PassingOf(ft.torrents, ft.answers, ft.filter_params)
        /\ ft.downloaded_torrents = <<>>
        /\ ft.downloaded_episodes = {}

====
